---- MODULE Spec2Model ----
(***************************************************************************)
(* Model of the blog content core (src/src/blog.rs): the slug generator,   *)
(* the manifest decoder (to_posts), the post resolver                      *)
(* (find_post_for_slug), the see-also list of make_blog, the two content   *)
(* sources with the remote-then-local fallback, and the feed builder.      *)
(*                                                                         *)
(* Strings are sequences of one-character strings, so that to_slug is      *)
(* computed character by character as the code computes it.                *)
(***************************************************************************)
EXTENDS Integers, Sequences, FiniteSets, TLC

(***************************************************************************)
(* Bounds of the model.                                                    *)
(***************************************************************************)
MaxTitleLen == 4      \* longest raw title fed to to_slug in SpecSlug
MaxRegs == 2          \* longest manifest (number of registrations)
MaxDate == 2          \* `updated` timestamps are 1..MaxDate

(***************************************************************************)
(* Characters.                                                             *)
(***************************************************************************)
LowerLetters == {"a", "b", "d", "m", "x", "z"}
UpperLetters == {"A", "B"}
\* the regex class [a-zA-Z] of blog.rs:156
IsAsciiLetter(c) == c \in LowerLetters \cup UpperLetters
\* char::is_whitespace, as used by str::trim
Whitespace == {" ", "\t"}

\* u8::to_ascii_lowercase on one character
AsciiLower(c) ==
    CASE c = "A" -> "a"
      [] c = "B" -> "b"
      [] OTHER -> c

\* str::to_ascii_lowercase
to_ascii_lowercase(s) == [i \in 1..Len(s) |-> AsciiLower(s[i])]

RECURSIVE TrimStart(_, _)
\* str::trim_start_matches: drop the leading characters that are in cs
TrimStart(s, cs) ==
    IF s # <<>> /\ Head(s) \in cs THEN TrimStart(Tail(s), cs) ELSE s

RECURSIVE TrimEnd(_, _)
\* str::trim_end_matches: drop the trailing characters that are in cs
TrimEnd(s, cs) ==
    IF s # <<>> /\ s[Len(s)] \in cs
    THEN TrimEnd(SubSeq(s, 1, Len(s) - 1), cs) ELSE s

\* str::trim
trim(s) == TrimEnd(TrimStart(s, Whitespace), Whitespace)

\* str::trim_matches(|c| c == '-')
trim_matches_hyphen(s) == TrimEnd(TrimStart(s, {"-"}), {"-"})

RECURSIVE SkipNonLetters(_)
\* the rest of s after the maximal run of non-letters at its start
SkipNonLetters(s) ==
    IF s # <<>> /\ ~IsAsciiLetter(Head(s)) THEN SkipNonLetters(Tail(s)) ELSE s

RECURSIVE replace_all(_)
\* Regex::new(r"[^a-zA-Z]+").replace_all(s, "-"): every maximal run of
\* characters outside [a-zA-Z] becomes one hyphen
replace_all(s) ==
    IF s = <<>> THEN <<>>
    ELSE IF IsAsciiLetter(Head(s)) THEN <<Head(s)>> \o replace_all(Tail(s))
    ELSE <<"-">> \o replace_all(SkipNonLetters(s))

RECURSIVE replace_each(_)
\* the same replacement with the regex r"[^a-zA-Z]" (no `+`): one hyphen per
\* character
replace_each(s) ==
    IF s = <<>> THEN <<>>
    ELSE IF IsAsciiLetter(Head(s)) THEN <<Head(s)>> \o replace_each(Tail(s))
    ELSE <<"-">> \o replace_each(Tail(s))

\* to_slug with the regex lacking its `+`
to_slug_no_plus(raw) ==
    to_ascii_lowercase(trim_matches_hyphen(replace_each(trim(raw))))

\* blog.rs to_slug
to_slug(raw) ==
    to_ascii_lowercase(trim_matches_hyphen(replace_all(trim(raw))))

(***************************************************************************)
(* Data model: Registry (blog.rs:26-33), Post (blog.rs:17-24).             *)
(***************************************************************************)
Dates == 1..MaxDate

\* titles a manifest may carry: "A b", "b", "B" (slug collides with "b"),
\* and "1" (no ASCII letter at all)
Titles == { <<"A", " ", "b">>, <<"b">>, <<"B">>, <<"1">> }

\* the extension appended by format!("{}.md", slug_to_find), blog.rs:167
MdExt == <<".", "m", "d">>

\* markdown references a manifest may carry: "b.md", "x.md", ".md"
Paths == { <<"b">> \o MdExt, <<"x">> \o MdExt, MdExt }

\* slugs a request may carry: "", "b", "a-b", "x", "z"
Slugs == { <<>>, <<"b">>, <<"a", "-", "b">>, <<"x">>, <<"z">> }

\* struct Registry
Registry == [title : Titles, markdown : Paths, hidden : BOOLEAN, updated : Dates]

\* sequences of length at most n over the set S
SeqsUpTo(S, n) == UNION { [1..k -> S] : k \in 0..n }

\* the Result / panic outcomes of the functions
Ok(v) == [tag |-> "Ok", val |-> v]
Err(msg) == [tag |-> "Err", val |-> msg]
Panic == [tag |-> "Panic", val |-> "panic"]
None == [tag |-> "None", val |-> "none"]

\* the closure of to_posts, blog.rs:120-126
to_post(r) ==
    [title |-> r.title, slug |-> to_slug(r.title), path |-> r.markdown,
     hidden |-> r.hidden, updated |-> r.updated]

\* blog.rs to_posts: map every Registry to a Post, then reverse
to_posts(registries) ==
    [i \in 1..Len(registries) |-> to_post(registries[Len(registries) + 1 - i])]

\* least element of a non-empty set of integers
Min(S) == CHOOSE m \in S : \A n \in S : m <= n

\* the predicate of .find(..), blog.rs:167
matches(post, slug_to_find) ==
    post.slug = slug_to_find \/ post.path = slug_to_find \o MdExt

\* index in posts of the post find_post_for_slug returns; 0 when it panics
\* (assert!(posts.len() > 0) fails, or unwrap() of nth(0) on None)
find_index(posts, slug_to_find) ==
    LET hits == { i \in 1..Len(posts) : matches(posts[i], slug_to_find) }
        visible == { i \in 1..Len(posts) : ~posts[i].hidden }
    IN  IF Len(posts) = 0 THEN 0
        ELSE IF hits # {} THEN Min(hits)
        ELSE IF visible # {} THEN Min(visible)
        ELSE 0

\* find_post_for_slug whose default is the first post, hidden or not
find_post_first_default(posts, slug_to_find) ==
    LET hits == { i \in 1..Len(posts) : matches(posts[i], slug_to_find) }
    IN  IF Len(posts) = 0 THEN Panic
        ELSE IF hits # {} THEN Ok(posts[Min(hits)])
        ELSE Ok(posts[1])

\* blog.rs find_post_for_slug
find_post_for_slug(posts, slug_to_find) ==
    IF find_index(posts, slug_to_find) = 0 THEN Panic
    ELSE Ok(posts[find_index(posts, slug_to_find)])

RECURSIVE filter_map(_, _, _)
\* .iter().filter(..).map(|Post{title,..}| (title, to_slug(title))).collect()
\* from position i on; kept holds the positions that pass the filter
filter_map(posts, kept, i) ==
    IF i > Len(posts) THEN <<>>
    ELSE IF i \in kept
         THEN << <<posts[i].title, to_slug(posts[i].title)>> >>
              \o filter_map(posts, kept, i + 1)
         ELSE filter_map(posts, kept, i + 1)

\* the see_also of make_blog that forgets to drop hidden posts
see_also_with_hidden(current_post, all_posts) ==
    filter_map(all_posts,
               { i \in 1..Len(all_posts) :
                    all_posts[i].title # current_post.title },
               1)

\* the see_also list of make_blog, blog.rs:141-145
see_also_of(current_post, all_posts) ==
    filter_map(all_posts,
               { i \in 1..Len(all_posts) :
                    ~all_posts[i].hidden
                    /\ all_posts[i].title # current_post.title },
               1)

(***************************************************************************)
(* State.                                                                  *)
(***************************************************************************)
VARIABLES
    \* slug generator run: the raw title, to_slug of it, to_slug of that
    raw, slugged, reslugged, spc,
    \* one resolution: the decoded manifest, the post collection, the
    \* requested slug, the resolver's outcome and the see_also list
    registries, all_posts, slug_to_find, current_post, current_idx,
    see_also, rpc,
    \* one request against the content sources: the kind of request ("page"
    \* or "rss"), whether a remote endpoint is configured, the requested
    \* slug, the position in the chain, the log of reads done so far, the
    \* remote responses and local files met, the manifest and posts in hand,
    \* and the results of the remote chain, the local chain and the request
    op, remote_configured, req_slug, pc, io, rm_resp, rc_resp, lm_file,
    lc_file, loaded, posts_now, remote_result, local_result, final

slugVars == <<raw, slugged, reslugged, spc>>
resolveVars == <<registries, all_posts, slug_to_find, current_post,
                 current_idx, see_also, rpc>>
sourceVars == <<op, remote_configured, req_slug, pc, io, rm_resp, rc_resp,
                lm_file, lc_file, loaded, posts_now, remote_result,
                local_result, final>>
vars == <<slugVars, resolveVars, sourceVars>>

SlugIdle ==
    /\ raw = <<>> /\ slugged = <<>> /\ reslugged = <<>> /\ spc = "idle"

ResolveIdle ==
    /\ registries = <<>> /\ all_posts = <<>> /\ slug_to_find = <<>>
    /\ current_post = None /\ current_idx = 0 /\ see_also = <<>>
    /\ rpc = "idle"

NoResponse == [kind |-> "none", status |-> 0, body |-> "none"]
NoFile == [kind |-> "none", body |-> "none"]

SourceIdle ==
    /\ op = "idle" /\ remote_configured = FALSE /\ req_slug = <<>>
    /\ pc = "idle" /\ io = <<>> /\ rm_resp = NoResponse /\ rc_resp = NoResponse
    /\ lm_file = NoFile /\ lc_file = NoFile /\ loaded = <<>>
    /\ posts_now = <<>> /\ remote_result = None /\ local_result = None
    /\ final = None

(***************************************************************************)
(* Slug generator: to_slug applied to a title, then to its own result.     *)
(***************************************************************************)
SlugAlphabet == {"a", "B", " ", "-", "1"}
RawTitles == SeqsUpTo(SlugAlphabet, MaxTitleLen)

InitSlug ==
    /\ raw \in RawTitles
    /\ slugged = <<>> /\ reslugged = <<>> /\ spc = "start"
    /\ ResolveIdle /\ SourceIdle

\* slug: to_slug(title), blog.rs:122
ToSlug ==
    /\ spc = "start"
    /\ slugged' = to_slug(raw)
    /\ spc' = "slugged"
    /\ UNCHANGED <<raw, reslugged, resolveVars, sourceVars>>

\* to_slug(title) of a title that is itself a slug, blog.rs:144
ToSlugAgain ==
    /\ spc = "slugged"
    /\ reslugged' = to_slug(slugged)
    /\ spc' = "reslugged"
    /\ UNCHANGED <<raw, slugged, resolveVars, sourceVars>>

NextSlug == ToSlug \/ ToSlugAgain
SpecSlug == InitSlug /\ [][NextSlug]_vars

(***************************************************************************)
(* Resolver: decode a manifest, resolve a slug, build the see_also list.   *)
(***************************************************************************)
\* manifests of the resolver runs; `updated` plays no part in resolution
ResolveRegistry == { r \in Registry : r.updated = 1 }

InitResolve ==
    /\ registries \in SeqsUpTo(ResolveRegistry, MaxRegs)
    /\ slug_to_find \in Slugs
    /\ all_posts = <<>> /\ current_post = None /\ current_idx = 0
    /\ see_also = <<>> /\ rpc = "start"
    /\ SlugIdle /\ SourceIdle

\* to_posts(&manifest), blog.rs:84 and blog.rs:106
ToPosts ==
    /\ rpc = "start"
    /\ all_posts' = to_posts(registries)
    /\ rpc' = "loaded"
    /\ UNCHANGED <<registries, slug_to_find, current_post, current_idx,
                   see_also, slugVars, sourceVars>>

\* let current_post = find_post_for_slug(&all_posts, slug), blog.rs:93,113
Resolve ==
    /\ rpc = "loaded"
    /\ current_post' = find_post_for_slug(all_posts, slug_to_find)
    /\ current_idx' = find_index(all_posts, slug_to_find)
    /\ rpc' = IF current_post'.tag = "Panic" THEN "panicked" ELSE "resolved"
    /\ UNCHANGED <<registries, all_posts, slug_to_find, see_also, slugVars,
                   sourceVars>>

\* make_blog(&current_post, &all_posts, ..), blog.rs:131-153
MakeBlog ==
    /\ rpc = "resolved"
    /\ see_also' = see_also_of(current_post.val, all_posts)
    /\ rpc' = "rendered"
    /\ UNCHANGED <<registries, all_posts, slug_to_find, current_post,
                   current_idx, slugVars, sourceVars>>

NextResolve == ToPosts \/ Resolve \/ MakeBlog
SpecResolve == InitResolve /\ [][NextResolve]_vars

(***************************************************************************)
(* Content sources (blog.rs:43-79) and the chains built on them.           *)
(***************************************************************************)
\* registrations met by the source runs
SourceRegistry ==
    { r \in Registry : r.title \in { <<"A", " ", "b">>, <<"b">> }
                       /\ r.markdown = <<"b">> \o MdExt }
SourceManifests == SeqsUpTo(SourceRegistry, MaxRegs)
PageSlugs == { <<>>, <<"b">>, <<"z">> }

\* reqwest's StatusCode::is_success
IsSuccess(status) == status \in 200..299
Statuses == {200, 404}

\* what GET {base_url}/manifest.json may come back with: no response at all,
\* or a response of some status whose body is or is not a JSON manifest
ManifestResponses ==
    { [kind |-> "transport_error", status |-> 0, body |-> "none"] }
    \cup [kind : {"http"}, status : Statuses, body : {"manifest json", "not json"}]

\* what GET {base_url}/{markdown} may come back with: no response, a response
\* whose body cannot be read, the markdown, or an error page
ContentResponses ==
    { [kind |-> "transport_error", status |-> 0, body |-> "none"],
      [kind |-> "body_error", status |-> 200, body |-> "none"],
      [kind |-> "http", status |-> 200, body |-> "remote markdown"],
      [kind |-> "http", status |-> 404, body |-> "404: Not Found"] }

\* what {directory}/manifest.json may be
ManifestFiles ==
    { [kind |-> "missing", body |-> "none"],
      [kind |-> "malformed", body |-> "not json"],
      [kind |-> "present", body |-> "manifest json"] }

\* what {directory}/{markdown} may be
ContentFiles ==
    { [kind |-> "missing", body |-> "none"],
      [kind |-> "present", body |-> "local markdown"] }

\* GithubSource::get_manifest; m is the manifest a JSON body decodes to
GithubSource_get_manifest(resp, m) ==
    IF resp.kind = "transport_error" THEN Err("Cannot read remote manifest")
    ELSE IF resp.body = "manifest json" THEN Ok(m)
    ELSE Err("Cannot deserialize response")

\* GithubSource::read_content
GithubSource_read_content(resp) ==
    IF resp.kind = "transport_error"
    THEN Err("Cannot read remote markdown file")
    ELSE IF resp.kind = "body_error"
    THEN Err("Cannot read remote markdown content")
    ELSE Ok(resp.body)

\* LocalSource::get_manifest: both unwrap()s
LocalSource_get_manifest(file, m) ==
    IF file.kind = "present" THEN Ok(m) ELSE Panic

\* LocalSource::read_content
LocalSource_read_content(file) ==
    IF file.kind = "present" THEN Ok(file.body)
    ELSE Err("Cannot read markdown")

\* blog.rs load_all_posts_remote
load_all_posts_remote(resp, m) ==
    IF GithubSource_get_manifest(resp, m).tag = "Err"
    THEN Err("Loading manifest failed")
    ELSE Ok(to_posts(GithubSource_get_manifest(resp, m).val))

\* blog.rs load_all_posts_local
load_all_posts_local(file, m) ==
    IF LocalSource_get_manifest(file, m).tag = "Ok"
    THEN Ok(to_posts(LocalSource_get_manifest(file, m).val))
    ELSE LocalSource_get_manifest(file, m)

\* blog.rs make_blog
make_blog(post, posts, markdown) ==
    [current_post |-> post,
     content |-> <<"html", markdown>>,
     see_also |-> see_also_of(post, posts),
     date_updated |-> <<"%v", post.updated>>]

\* the closure of posts.iter().map(..) in build_rss, blog.rs:184-188
rss_item(post) ==
    [title |-> post.title,
     link |-> <<"https://hacklewayne.com", "/", post.slug>>,
     pub_date |-> <<"rfc2822", post.updated>>]

\* the and_then closure of build_rss, blog.rs:180-201
build_channel(posts) ==
    IF Len(posts) = 0 THEN Panic
    ELSE Ok([items |-> [i \in 1..Len(posts) |-> rss_item(posts[i])],
             pub_date |-> <<"rfc2822", posts[1].updated>>])

\* a fallback that also runs after a successful first attempt
or_runs_always(result) == TRUE

\* Result::or_else, blog.rs:176: the closure runs only on Err
or_else_runs(result) == result.tag = "Err"

\* the page pipeline falls back to the local chain when load_remote fails
render_falls_back(result) == result.tag = "Err"

\* the page pipeline's view of a chain's result: the blog on success, a
\* generic failure otherwise
render_view(result) ==
    IF result.tag = "Ok"
    THEN Ok(make_blog(result.val[1], result.val[2], result.val[3]))
    ELSE Err("generic failure")

InitSource ==
    /\ op \in {"page", "rss"}
    /\ remote_configured \in BOOLEAN
    /\ req_slug \in PageSlugs
    /\ op = "rss" => req_slug = <<>>
    /\ pc = "start" /\ io = <<>>
    /\ rm_resp = NoResponse /\ rc_resp = NoResponse
    /\ lm_file = NoFile /\ lc_file = NoFile
    /\ loaded = <<>> /\ posts_now = <<>>
    /\ remote_result = None /\ local_result = None /\ final = None
    /\ SlugIdle /\ ResolveIdle

\* load_remote up to the manifest, blog.rs:88-91 and 100
LoadRemoteManifest ==
    /\ op = "page" /\ pc = "start" /\ remote_configured
    /\ \E resp \in ManifestResponses, m \in SourceManifests :
          LET all == load_all_posts_remote(resp, m) IN
          /\ rm_resp' = resp
          /\ io' = Append(io, "GET manifest")
          /\ IF all.tag = "Ok"
             THEN /\ loaded' = m
                  /\ posts_now' = all.val
                  /\ pc' = "remote_loaded"
                  /\ UNCHANGED remote_result
             ELSE /\ remote_result' = all
                  /\ pc' = IF render_falls_back(all) THEN "local" ELSE "done"
                  /\ UNCHANGED <<loaded, posts_now>>
    /\ UNCHANGED <<op, remote_configured, req_slug, rc_resp, lm_file, lc_file,
                   local_result, final, slugVars, resolveVars>>

\* load_remote from the resolution on, blog.rs:93-98
LoadRemoteContent ==
    /\ op = "page" /\ pc = "remote_loaded"
    /\ LET post == find_post_for_slug(posts_now, req_slug) IN
       IF post.tag = "Panic"
       THEN /\ remote_result' = Panic
            /\ final' = Panic
            /\ pc' = "done"
            /\ UNCHANGED <<io, rc_resp, loaded, posts_now>>
       ELSE \E resp \in ContentResponses :
            LET content == GithubSource_read_content(resp) IN
            /\ rc_resp' = resp
            /\ io' = Append(io, "GET content")
            /\ IF content.tag = "Ok"
               THEN /\ remote_result' = Ok(<<post.val, posts_now, content.val>>)
                    /\ final' = render_view(remote_result')
                    /\ pc' = "done"
                    /\ UNCHANGED <<loaded, posts_now>>
               ELSE /\ remote_result' = Err("Reading current post failed")
                    /\ loaded' = <<>>
                    /\ posts_now' = <<>>
                    /\ pc' = IF render_falls_back(remote_result')
                             THEN "local" ELSE "done"
                    /\ UNCHANGED final
    /\ UNCHANGED <<op, remote_configured, req_slug, rm_resp, lm_file, lc_file,
                   local_result, slugVars, resolveVars>>

\* the page pipeline without a remote endpoint: straight to the local chain
RenderWithoutRemote ==
    /\ op = "page" /\ pc = "start" /\ ~remote_configured
    /\ pc' = "local"
    /\ UNCHANGED <<op, remote_configured, req_slug, io, rm_resp, rc_resp,
                   lm_file, lc_file, loaded, posts_now, remote_result,
                   local_result, final, slugVars, resolveVars>>

\* load_local up to the manifest, blog.rs:109-112
LoadLocalManifest ==
    /\ op = "page" /\ pc = "local"
    /\ \E file \in ManifestFiles, m \in SourceManifests :
          LET all == load_all_posts_local(file, m) IN
          /\ lm_file' = file
          /\ io' = Append(io, "read manifest")
          /\ IF all.tag = "Ok"
             THEN /\ loaded' = m
                  /\ posts_now' = all.val
                  /\ pc' = "local_loaded"
                  /\ UNCHANGED <<local_result, final>>
             ELSE /\ local_result' = all
                  /\ final' = all
                  /\ pc' = "done"
                  /\ UNCHANGED <<loaded, posts_now>>
    /\ UNCHANGED <<op, remote_configured, req_slug, rm_resp, rc_resp, lc_file,
                   remote_result, slugVars, resolveVars>>

\* load_local from the resolution on, blog.rs:113-114
LoadLocalContent ==
    /\ op = "page" /\ pc = "local_loaded"
    /\ LET post == find_post_for_slug(posts_now, req_slug) IN
       IF post.tag = "Panic"
       THEN /\ local_result' = Panic
            /\ final' = Panic
            /\ UNCHANGED <<io, lc_file>>
       ELSE \E file \in ContentFiles :
            LET content == LocalSource_read_content(file) IN
            /\ lc_file' = file
            /\ io' = Append(io, "read content")
            /\ local_result' =
                  IF content.tag = "Ok"
                  THEN Ok(<<post.val, posts_now, content.val>>)
                  ELSE content
            /\ final' = render_view(local_result')
    /\ pc' = "done"
    /\ UNCHANGED <<op, remote_configured, req_slug, rm_resp, rc_resp, lm_file,
                   loaded, posts_now, remote_result, slugVars, resolveVars>>

\* build_rss with a remote endpoint, blog.rs:173-174, then 176-201
BuildRssRemote ==
    /\ op = "rss" /\ pc = "start" /\ remote_configured
    /\ \E resp \in ManifestResponses, m \in SourceManifests :
          LET all == load_all_posts_remote(resp, m) IN
          /\ rm_resp' = resp
          /\ io' = Append(io, "GET manifest")
          /\ remote_result' = all
          /\ IF all.tag = "Ok"
             THEN loaded' = m /\ posts_now' = all.val
             ELSE UNCHANGED <<loaded, posts_now>>
          /\ IF or_else_runs(all)
             THEN pc' = "local" /\ UNCHANGED final
             ELSE pc' = "done" /\ final' = build_channel(all.val)
    /\ UNCHANGED <<op, remote_configured, req_slug, rc_resp, lm_file, lc_file,
                   local_result, slugVars, resolveVars>>

\* build_rss without a remote endpoint, blog.rs:175-176
BuildRssNoRemote ==
    /\ op = "rss" /\ pc = "start" /\ ~remote_configured
    /\ remote_result' = Err("var_err")
    /\ pc' = IF or_else_runs(remote_result') THEN "local" ELSE "done"
    /\ UNCHANGED <<op, remote_configured, req_slug, io, rm_resp, rc_resp,
                   lm_file, lc_file, loaded, posts_now, local_result, final,
                   slugVars, resolveVars>>

\* build_rss's fallback to the local manifest, blog.rs:176, then 179-201
BuildRssLocal ==
    /\ op = "rss" /\ pc = "local"
    /\ \E file \in ManifestFiles, m \in SourceManifests :
          LET all == load_all_posts_local(file, m) IN
          /\ lm_file' = file
          /\ io' = Append(io, "read manifest")
          /\ local_result' = all
          /\ IF all.tag = "Ok"
             THEN /\ loaded' = m
                  /\ posts_now' = all.val
                  /\ final' = build_channel(all.val)
             ELSE /\ final' = all
                  /\ UNCHANGED <<loaded, posts_now>>
    /\ pc' = "done"
    /\ UNCHANGED <<op, remote_configured, req_slug, rm_resp, rc_resp, lc_file,
                   remote_result, slugVars, resolveVars>>

NextSource ==
    \/ LoadRemoteManifest
    \/ LoadRemoteContent
    \/ RenderWithoutRemote
    \/ LoadLocalManifest
    \/ LoadLocalContent
    \/ BuildRssRemote
    \/ BuildRssNoRemote
    \/ BuildRssLocal
SpecSource == InitSource /\ [][NextSource]_vars

(***************************************************************************)
(* Properties of the slug generator (SpecSlug).                            *)
(***************************************************************************)
NoAdjacentHyphens(s) ==
    \A i \in 1..(Len(s) - 1) : ~(s[i] = "-" /\ s[i + 1] = "-")

\* C5: for every title, to_slug(title) consists only of lowercase ASCII
\* letters and hyphens, has no two adjacent hyphens, neither starts nor ends
\* with a hyphen, and to_slug(to_slug(title)) = to_slug(title).
C5_SlugShapeAndIdempotent ==
    /\ spc \in {"slugged", "reslugged"} =>
          /\ \A i \in 1..Len(slugged) : slugged[i] \in LowerLetters \cup {"-"}
          /\ NoAdjacentHyphens(slugged)
          /\ slugged # <<>> => slugged[1] # "-" /\ slugged[Len(slugged)] # "-"
    /\ spc = "reslugged" => reslugged = slugged

\* a title with an upper-case letter, a run of two non-letters between
\* letters and a trailing non-letter has been slugged twice
C5_Witness ==
    /\ spc = "reslugged"
    /\ \E i \in 1..(Len(raw) - 3) :
          /\ raw[i] \in UpperLetters
          /\ ~IsAsciiLetter(raw[i + 1]) /\ ~IsAsciiLetter(raw[i + 2])
          /\ IsAsciiLetter(raw[i + 3])
    /\ Len(slugged) = 3 /\ slugged[2] = "-"

(***************************************************************************)
(* Properties of the resolver and of see_also (SpecResolve).               *)
(***************************************************************************)
Returned == rpc \in {"resolved", "rendered"}
ResolverRan == rpc \in {"resolved", "rendered", "panicked"}

SlugHits == { i \in 1..Len(all_posts) : all_posts[i].slug = slug_to_find }
PathHits ==
    { i \in 1..Len(all_posts) : all_posts[i].path = slug_to_find \o MdExt }
Visible == { i \in 1..Len(all_posts) : ~all_posts[i].hidden }

\* C2: the three rules in strict priority order: the first post whose slug
\* equals the requested slug; else the first post whose path is the
\* requested slug + ".md"; else the first post that is not hidden.
C2_StrictPriority ==
    (Returned /\ Len(all_posts) > 0) =>
        current_post.val =
            IF SlugHits # {} THEN all_posts[Min(SlugHits)]
            ELSE IF PathHits # {} THEN all_posts[Min(PathHits)]
            ELSE all_posts[Min(Visible)]

\* C3 as stated: a hidden post is returned only when its slug equals the
\* requested slug.
C3_HiddenOnlyBySlug ==
    (Returned /\ current_post.val.hidden) =>
        current_post.val.slug = slug_to_find

\* C3 (amended): a hidden post is returned only when its slug equals the
\* requested slug or its path equals the requested slug + ".md"; it is never
\* the fallback default.
C3_HiddenOnlyByMatch ==
    (Returned /\ current_post.val.hidden) =>
        \/ current_post.val.slug = slug_to_find
        \/ current_post.val.path = slug_to_find \o MdExt

\* a hidden post was returned through the ".md" path rule alone
C3_Witness ==
    /\ Returned
    /\ current_post.val.hidden
    /\ current_post.val.slug # slug_to_find
    /\ current_post.val.path = slug_to_find \o MdExt

\* C4: for every non-empty post sequence the resolver completes without a
\* fatal failure and returns an element of the sequence.
C4_TotalOnNonEmpty ==
    (ResolverRan /\ Len(all_posts) > 0) =>
        /\ current_post.tag = "Ok"
        /\ \E i \in 1..Len(all_posts) : all_posts[i] = current_post.val

\* C10: the empty slug resolves to the first post that is not hidden.
C10_EmptySlugIsDefault ==
    (Returned /\ Len(all_posts) > 0 /\ slug_to_find = <<>>) =>
        /\ Visible # {}
        /\ current_post.val = all_posts[Min(Visible)]

\* the elements of a finite set of integers in increasing order
Ascending(S) ==
    CHOOSE f \in [1..Cardinality(S) -> S] :
        \A a, b \in 1..Cardinality(S) : a < b => f[a] < f[b]

\* the posts at the indices S, in collection order, as (title, slug) pairs
Projected(S) ==
    [k \in 1..Cardinality(S) |->
        <<all_posts[Ascending(S)[k]].title, all_posts[Ascending(S)[k]].slug>>]

RemoteReads == {"GET manifest", "GET content"}
LocalReads == {"read manifest", "read content"}
Count(e) == Cardinality({ i \in 1..Len(io) : io[i] = e })
Did(e) == Count(e) > 0

\* C1: with a remote endpoint the remote chain is attempted first and once;
\* when it fails it returns an error with no partial result, the local chain
\* then runs once from the manifest onward and its outcome is the final one,
\* with nothing taken from the remote; when the remote chain succeeds the
\* local source is never read; without a remote endpoint the remote source is
\* never contacted.
C1_FallbackProtocol ==
    /\ \A e \in RemoteReads \cup LocalReads : Count(e) <= 1
    /\ \A i, j \in 1..Len(io) :
          (i < j /\ io[i] \in LocalReads) => io[j] \in LocalReads
    /\ Did("GET content") => io[1] = "GET manifest"
    /\ Did("read content") => Did("read manifest")
    /\ (remote_configured /\ io # <<>>) => io[1] = "GET manifest"
    /\ (remote_configured /\ pc = "done") => Count("GET manifest") = 1
    /\ ~remote_configured => \A i \in 1..Len(io) : io[i] \in LocalReads
    /\ remote_result.tag = "Ok" => \A i \in 1..Len(io) : io[i] \in RemoteReads
    /\ remote_result.tag = "Err" =>
          /\ remote_result.val \in
                {"Loading manifest failed", "Reading current post failed",
                 "var_err"}
          /\ pc = "local" => (posts_now = <<>> /\ loaded = <<>>)
    /\ (pc = "done" /\ remote_result.tag \in {"Err", "None"}) =>
          /\ Count("read manifest") = 1
          /\ local_result.tag # "Ok" => final.tag = local_result.tag
          /\ local_result.tag = "Ok" => posts_now = to_posts(loaded)
          /\ (local_result.tag = "Ok" /\ op = "page") =>
                /\ final.tag = "Ok"
                /\ final.val.current_post = local_result.val[1]
                /\ final.val.content = <<"html", lc_file.body>>
                /\ lc_file.body = "local markdown"
          /\ (local_result.tag = "Ok" /\ op = "rss") =>
                /\ final.tag \in {"Ok", "Panic"}
                /\ final.tag = "Ok" =>
                      /\ Len(final.val.items) = Len(local_result.val)
                      /\ \A i \in 1..Len(local_result.val) :
                            final.val.items[i].title = local_result.val[i].title

\* a page request whose remote manifest loaded, whose remote content read
\* failed, and which was then served by the local chain
C1_Witness ==
    /\ op = "page" /\ pc = "done" /\ remote_configured
    /\ io = <<"GET manifest", "GET content", "read manifest", "read content">>
    /\ remote_result.tag = "Err"
    /\ final.tag = "Ok"

\* C7: a failure of the local chain (manifest missing or malformed, content
\* unreadable) is returned to the caller as Err.
C7_LocalFailureIsErr ==
    (pc = "done" /\ (lm_file.kind \in {"missing", "malformed"}
                     \/ lc_file.kind = "missing")) =>
        final.tag = "Err"

\* C8: a remote response with a non-success status makes the remote chain
\* return Err, at the manifest stage and at the content stage, and the body
\* of the error response is never served as the post's content.
C8_NonSuccessIsFailure ==
    /\ (rm_resp.kind = "http" /\ ~IsSuccess(rm_resp.status)) =>
          remote_result.tag = "Err"
    /\ (rc_resp.kind = "http" /\ ~IsSuccess(rc_resp.status)) =>
          /\ remote_result.tag = "Err"
          /\ final.tag = "Ok" => final.val.content # <<"html", rc_resp.body>>

\* greatest `updated` of a non-empty manifest
MostRecent(m) ==
    CHOOSE d \in { m[i].updated : i \in 1..Len(m) } :
        \A i \in 1..Len(m) : m[i].updated <= d

\* C9: whenever a manifest load succeeds build_rss returns a feed with one
\* item per registration, in reverse registration order, each with its
\* post's title, slug link and date, and a document date equal to the first
\* item's date, the most recent `updated`.
C9_FeedWheneverManifestLoads ==
    (op = "rss" /\ pc = "done"
        /\ (remote_result.tag = "Ok" \/ lm_file.kind = "present")) =>
        /\ final.tag = "Ok"
        /\ Len(final.val.items) = Len(loaded)
        /\ \A i \in 1..Len(loaded) :
              LET r == loaded[Len(loaded) + 1 - i] IN
              final.val.items[i] =
                  [title |-> r.title,
                   link |-> <<"https://hacklewayne.com", "/", to_slug(r.title)>>,
                   pub_date |-> <<"rfc2822", r.updated>>]
        /\ final.val.pub_date = final.val.items[1].pub_date
        /\ final.val.pub_date = <<"rfc2822", MostRecent(loaded)>>

====
